---- MODULE Spec2Model ----
(***************************************************************************)
(* State-machine model of the p5.sound.js node wrappers: SoundFile         *)
(* (a Tone.Player), Noise (a Tone.Noise) and FFT (a Tone.FFT behind a      *)
(* Tone.Gain).  The wrappers are modelled line by line; the calls they     *)
(* make into the Tone engine are modelled by the Tone* operators.          *)
(***************************************************************************)
EXTENDS Integers, FiniteSets, Sequences, TLC

\* ------------------------------------------------------------------ bounds
BufDur == 2          \* duration of every decoded buffer, in seconds
MaxArg == 3          \* largest time argument handed to loopPoints
SampleRate == 4      \* frames per second of the context / decoded buffers
Channels == 2        \* channels of every decoded buffer
MaxPending == 1      \* ended buffer sources whose event is not yet delivered

\* ------------------------------------------------------------------- nodes
SoundFiles == {"sf1", "sf2"}
NoiseNodes == {"nz1"}
Analyzers  == {"fft1", "fft2"}
Sources    == SoundFiles \cup NoiseNodes

Destination == "Destination"     \* the context's final output
Undefined   == "undefined"       \* the JavaScript value undefined

\* what a caller may hand to connect(): a node object, undefined, an object
\* without a getNode method, or an object whose getNode() returns undefined
NoGetNode   == "noGetNode"
NullHandle  == "nullHandle"
ConnectArgs == Analyzers \cup Sources \cup {Undefined, NoGetNode, NullHandle}

NoErr == "none"

VARIABLES
  edges,      \* edges[n]: handles the output of node n is connected to
  loaded,     \* loaded[n]: the Tone.Player buffer of n has finished loading
  playing,    \* this.playing
  rate,       \* this.rate (own property set by the constructor)
  engRate,    \* this.soundfile.playbackRate
  engState,   \* this.soundfile.state: "stopped" or "started"
  pos,        \* position of the active buffer source, in seconds
  loop,       \* this.soundfile.loop
  loopStart,  \* this.soundfile.loopStart
  loopEnd,    \* this.soundfile.loopEnd
  inRange,    \* history: every loopPoints call on n had 0 <= startTime <= BufDur
  onstop,     \* this.soundfile.onstop
  ending,     \* ending[n]: buffer sources of n that were stopped or ran out
              \* and whose ended event the engine has not yet delivered
  fired,      \* the last delivery of an ended event: the callbacks it invoked
  volume,     \* this.soundfile.volume.value, in decibels
  fftSize,    \* this.fftSize of an FFT
  last        \* the last call made by the host and its outcome

vars == <<edges, loaded, playing, rate, engRate, engState, pos, loop,
          loopStart, loopEnd, inRange, onstop, ending, fired, volume,
          fftSize, last>>

graphVars == <<edges>>
playVars  == <<playing, rate, engRate, engState, pos, loop>>
loopVars  == <<loopStart, loopEnd, inRange>>
endVars   == <<onstop, ending, fired>>
auxVars   == <<volume, fftSize>>

NoArgs == <<FALSE, 0, FALSE, 0, 0>>

\* the record of a call: what was called on which node with which arguments,
\* the error it raised, what it returned, the outgoing edges the node had
\* before the call, and a bit that flips at every call
Call(op, n, dest, args, err, retKind, retVal) ==
  [op |-> op, node |-> n, dest |-> dest, args |-> args, err |-> err,
   retKind |-> retKind, retVal |-> retVal, pre |-> edges[n],
   seq |-> 1 - last.seq]

\* a call that returns nothing
Done(op, n, err) == Call(op, n, Undefined, NoArgs, err, "undefined", 0)

\* ------------------------------------------------------- property lookup
\* Own properties the SoundFile constructor assigns on the instance, and the
\* methods the class body puts on the prototype.  A call o.m() resolves m on
\* the instance first: an own data property hides the prototype method.
SoundFileOwnProps == {"soundfile", "playing", "rate"}

SoundFileMethods ==
  {"getNode", "connect", "disconnect", "start", "play", "stop", "pause",
   "loop", "loopPoints", "amp", "rate", "duration", "sampleRate",
   "currentTime", "jump", "isPlaying", "isLooping", "onended", "frames",
   "channels"}

SoundFileCallable(m) == m \in SoundFileMethods /\ m \notin SoundFileOwnProps

NoiseOwnProps == {"noise"}
NoiseMethods  == {"type", "getNode", "connect", "disconnect", "start", "stop"}
NoiseCallable(m) == m \in NoiseMethods /\ m \notin NoiseOwnProps

\* --------------------------------------------------------------- the graph
\* destination.getNode(): [err, handle]
GetNode(d) ==
  IF d = Undefined \/ d = NoGetNode THEN [err |-> "TypeError", handle |-> Undefined]
  ELSE IF d = NullHandle THEN [err |-> NoErr, handle |-> Undefined]
  ELSE [err |-> NoErr, handle |-> d]

\* number of inputs of an engine node: sources have none, a Gain has one
NumberOfInputs(h) == IF h \in Sources THEN 0 ELSE 1

ToneConnectNoAssert(es, h) == [err |-> NoErr, edges |-> es \cup {h}]

ToneConnectReplace(es, h) ==
  IF h = Undefined \/ NumberOfInputs(h) = 0
  THEN [err |-> "Error", edges |-> es]
  ELSE [err |-> NoErr, edges |-> {h}]

\* Tone's node.connect(h): asserts that h is defined and has an input, then
\* adds the edge; connecting twice to the same input is one edge
ToneConnect(es, h) ==
  IF h = Undefined \/ NumberOfInputs(h) = 0
  THEN [err |-> "Error", edges |-> es]
  ELSE [err |-> NoErr, edges |-> es \cup {h}]

ContextDestinationHandle == Destination

\* Tone.Context.destination: Tone.Context is the class, and destination is
\* a property of its instances, so the expression evaluates to undefined
ContextDestination == Undefined

ToneDisconnectOnlyGiven(es, d) ==
  IF d \in es THEN [err |-> NoErr, edges |-> es \ {d}]
  ELSE [err |-> "InvalidAccessError", edges |-> es]

\* Tone's node.disconnect(d): with d undefined every output is disconnected
\* (never an error); with a node d only the edge to d is removed, and the
\* engine raises InvalidAccessError when there is no such edge
ToneDisconnect(es, d) ==
  IF d = Undefined THEN [err |-> NoErr, edges |-> {}]
  ELSE IF d \in es THEN [err |-> NoErr, edges |-> es \ {d}]
  ELSE [err |-> "InvalidAccessError", edges |-> es]

\* the edges of n and the error after this.X.connect(destination.getNode())
Connected(n, d) ==
  IF GetNode(d).err # NoErr
  THEN [err |-> GetNode(d).err, edges |-> edges[n]]
  ELSE ToneConnect(edges[n], GetNode(d).handle)

\* connect(destination) { this.soundfile.connect(destination.getNode()); }
SoundFile_connect(n, d) ==
  /\ edges' = [edges EXCEPT ![n] = Connected(n, d).edges]
  /\ last' = Call("connect", n, d, NoArgs, Connected(n, d).err, "undefined", 0)
  /\ UNCHANGED <<loaded, playVars, loopVars, endVars, auxVars>>

\* disconnect() { this.soundfile.disconnect(Tone.Context.destination); }
SoundFile_disconnect(n) ==
  /\ edges' = [edges EXCEPT
                 ![n] = ToneDisconnect(edges[n], ContextDestination).edges]
  /\ last' = Done("disconnect", n,
                  ToneDisconnect(edges[n], ContextDestination).err)
  /\ UNCHANGED <<loaded, playVars, loopVars, endVars, auxVars>>

\* connect(destination) { this.noise.connect(destination.getNode()); }
Noise_connect(n, d) ==
  /\ edges' = [edges EXCEPT ![n] = Connected(n, d).edges]
  /\ last' = Call("connect", n, d, NoArgs, Connected(n, d).err, "undefined", 0)
  /\ UNCHANGED <<loaded, playVars, loopVars, endVars, auxVars>>

\* disconnect() { this.noise.disconnect(Tone.Context.destination); }
Noise_disconnect(n) ==
  /\ edges' = [edges EXCEPT
                 ![n] = ToneDisconnect(edges[n], ContextDestination).edges]
  /\ last' = Done("disconnect", n,
                  ToneDisconnect(edges[n], ContextDestination).err)
  /\ UNCHANGED <<loaded, playVars, loopVars, endVars, auxVars>>

\* ------------------------------------------------------- the buffer
\* the Tone.Player's buffer finishes loading (the success callback runs)
BufferLoaded(n) ==
  /\ ~loaded[n]
  /\ loaded' = [loaded EXCEPT ![n] = TRUE]
  /\ last' = Done("load", n, NoErr)
  /\ UNCHANGED <<graphVars, playVars, loopVars, endVars, auxVars>>

\* this.soundfile.buffer is always a ToneAudioBuffer object, loaded or not;
\* its getters answer 0 while nothing is decoded (sampleRate answers the
\* context's rate, which is also the rate decoded buffers are resampled to)
BufferTruthy(n)   == TRUE
BufferDuration(n) == IF loaded[n] THEN BufDur ELSE 0
BufferLength(n)   == IF loaded[n] THEN BufDur * SampleRate ELSE 0
BufferChannels(n) == IF loaded[n] THEN Channels ELSE 0
BufferSampleRate(n) == SampleRate

\* what a getter call returns: the value, or undefined when the guard
\* if (this.soundfile.buffer) fails
Returned(op, n, truthy, val) ==
  IF truthy THEN Call(op, n, Undefined, NoArgs, NoErr, "number", val)
  ELSE Call(op, n, Undefined, NoArgs, NoErr, "undefined", 0)

\* duration() { return this.soundfile.buffer.duration; }
SoundFile_duration(n) ==
  /\ last' = Returned("duration", n, TRUE, BufferDuration(n))
  /\ UNCHANGED <<graphVars, loaded, playVars, loopVars, endVars, auxVars>>

\* sampleRate() { if (this.soundfile.buffer) return ...buffer.sampleRate; }
SoundFile_sampleRate(n) ==
  /\ last' = Returned("sampleRate", n, BufferTruthy(n), BufferSampleRate(n))
  /\ UNCHANGED <<graphVars, loaded, playVars, loopVars, endVars, auxVars>>

\* frames() { if (this.soundfile.buffer) return ...buffer.length; }
SoundFile_frames(n) ==
  /\ last' = Returned("frames", n, BufferTruthy(n), BufferLength(n))
  /\ UNCHANGED <<graphVars, loaded, playVars, loopVars, endVars, auxVars>>

\* channels() { if (this.soundfile.buffer) return ...buffer.numberOfChannels; }
SoundFile_channels(n) ==
  /\ last' = Returned("channels", n, BufferTruthy(n), BufferChannels(n))
  /\ UNCHANGED <<graphVars, loaded, playVars, loopVars, endVars, auxVars>>

\* isPlaying() { return this.playing; }
isPlaying(n) == playing[n]

\* isLooping() { return this.soundfile.loop; }
isLooping(n) == loop[n]

\* --------------------------------------------------------- the transport
\* Tone.Player.start() with no offset: asserts that the buffer is loaded,
\* then plays a fresh buffer source from loopStart when looping, else from 0
StartOffset(n) == IF loop[n] THEN loopStart[n] ELSE 0

\* a start on a player that is already started stops the source that was
\* playing (its ended event follows) before the new one starts
TonePlayerStart(n) ==
  IF loaded[n]
  THEN [err |-> NoErr, state |-> "started", pos |-> StartOffset(n),
        ended |-> IF engState[n] = "started" THEN 1 ELSE 0]
  ELSE [err |-> "Error", state |-> engState[n], pos |-> pos[n], ended |-> 0]

\* start() { this.soundfile.playbackRate = this.rate;
\*           this.soundfile.start(); this.playing = true; }
\* (the last statement is not reached when soundfile.start() throws)
StartResult(n) ==
  [engRate  |-> rate[n],
   engState |-> TonePlayerStart(n).state,
   pos      |-> TonePlayerStart(n).pos,
   ending   |-> ending[n] + TonePlayerStart(n).ended,
   playing  |-> IF TonePlayerStart(n).err = NoErr THEN TRUE ELSE playing[n],
   rate     |-> rate[n],
   loop     |-> loop[n],
   err      |-> TonePlayerStart(n).err]

SoundFile_startShared(n) ==
  /\ StartResult(n).ending <= MaxPending
  /\ engRate'  = [engRate EXCEPT ![n] = StartResult(n).engRate]
  /\ engState' = [engState EXCEPT ![n] = StartResult(n).engState]
  /\ pos'      = [pos EXCEPT ![n] = StartResult(n).pos]
  /\ ending'   = [ending EXCEPT ![n] = StartResult(n).ending]
  /\ playing'  = [m \in SoundFiles |-> StartResult(n).playing]
  /\ last'     = Done("start", n, StartResult(n).err)
  /\ UNCHANGED <<graphVars, loaded, rate, loop, loopVars, onstop, fired,
                 auxVars>>

SoundFile_start(n) ==
  /\ StartResult(n).ending <= MaxPending
  /\ engRate'  = [engRate EXCEPT ![n] = StartResult(n).engRate]
  /\ engState' = [engState EXCEPT ![n] = StartResult(n).engState]
  /\ pos'      = [pos EXCEPT ![n] = StartResult(n).pos]
  /\ ending'   = [ending EXCEPT ![n] = StartResult(n).ending]
  /\ playing'  = [playing EXCEPT ![n] = StartResult(n).playing]
  /\ last'     = Done("start", n, StartResult(n).err)
  /\ UNCHANGED <<graphVars, loaded, rate, loop, loopVars, onstop, fired,
                 auxVars>>

\* play() { this.soundfile.playbackRate = this.rate; console.log(this.rate);
\*          this.soundfile.start(); this.playing = true; }
PlayResultKeepRate(n) ==
  [engRate  |-> engRate[n],
   engState |-> TonePlayerStart(n).state,
   pos      |-> TonePlayerStart(n).pos,
   ending   |-> ending[n] + TonePlayerStart(n).ended,
   playing  |-> IF TonePlayerStart(n).err = NoErr THEN TRUE ELSE playing[n],
   rate     |-> rate[n],
   loop     |-> loop[n],
   err      |-> TonePlayerStart(n).err]

PlayResult(n) ==
  [engRate  |-> rate[n],
   engState |-> TonePlayerStart(n).state,
   pos      |-> TonePlayerStart(n).pos,
   ending   |-> ending[n] + TonePlayerStart(n).ended,
   playing  |-> IF TonePlayerStart(n).err = NoErr THEN TRUE ELSE playing[n],
   rate     |-> rate[n],
   loop     |-> loop[n],
   err      |-> TonePlayerStart(n).err]

SoundFile_play(n) ==
  /\ PlayResult(n).ending <= MaxPending
  /\ engRate'  = [engRate EXCEPT ![n] = PlayResult(n).engRate]
  /\ engState' = [engState EXCEPT ![n] = PlayResult(n).engState]
  /\ pos'      = [pos EXCEPT ![n] = PlayResult(n).pos]
  /\ ending'   = [ending EXCEPT ![n] = PlayResult(n).ending]
  /\ playing'  = [playing EXCEPT ![n] = PlayResult(n).playing]
  /\ last'     = Done("play", n, PlayResult(n).err)
  /\ UNCHANGED <<graphVars, loaded, rate, loop, loopVars, onstop, fired,
                 auxVars>>

\* the ended events a stop of the player adds: one when a source is playing
StoppedSources(n) == IF engState[n] = "started" THEN 1 ELSE 0

\* stop() { this.soundfile.stop(); }   Tone stops the active source; a
\* stopped player stays stopped, without error
SoundFile_stop(n) ==
  /\ ending[n] + StoppedSources(n) <= MaxPending
  /\ engState' = [engState EXCEPT ![n] = "stopped"]
  /\ pos'      = [pos EXCEPT ![n] = 0]
  /\ ending'   = [ending EXCEPT ![n] = @ + StoppedSources(n)]
  /\ last'     = Done("stop", n, NoErr)
  /\ UNCHANGED <<graphVars, loaded, playing, rate, engRate, loop, loopVars,
                 onstop, fired, auxVars>>

\* jump(value) { this.soundfile.seek(value); }   Tone's seek acts on a
\* started player only: it stops the playing source and starts a new one at
\* the offset
JumpArgs == 0 .. BufDur - 1

SoundFile_jump(n, t) ==
  /\ ending[n] + StoppedSources(n) <= MaxPending
  /\ pos'    = [pos EXCEPT ![n] = IF engState[n] = "started" THEN t ELSE @]
  /\ ending' = [ending EXCEPT ![n] = @ + StoppedSources(n)]
  /\ last'   = Call("jump", n, Undefined, <<TRUE, t, FALSE, 0, 0>>, NoErr,
                    "undefined", 0)
  /\ UNCHANGED <<graphVars, loaded, playing, rate, engRate, engState, loop,
                 loopVars, onstop, fired, auxVars>>

\* names bound where currentTime() runs: the imports and declarations of
\* the module (the line that would declare currentTime is commented out)
ModuleBindings == {"Tone", "clamp", "loadSound", "SoundFile"}

\* currentTime() { return currentTime; }
SoundFile_currentTime(n) ==
  IF "currentTime" \in ModuleBindings
  THEN /\ last' = Call("currentTime", n, Undefined, NoArgs, NoErr, "number",
                       pos[n])
       /\ UNCHANGED <<graphVars, loaded, playVars, loopVars, endVars, auxVars>>
  ELSE /\ last' = Done("currentTime", n, "ReferenceError")
       /\ UNCHANGED <<graphVars, loaded, playVars, loopVars, endVars, auxVars>>

\* gains in thousandths: -1, 0, 0.001, 0.01, 0.1 and 1
GainArgs == {-1000, 0, 1, 10, 100, 1000}

\* log10 of g / 1000 for g a power of ten up to 1000
RECURSIVE Log10(_)
Log10(g) == IF g >= 1000 THEN 0 ELSE Log10(g * 10) - 1

\* Tone.gainToDb(g) = 20 * log10(g): minus infinity at 0, NaN below 0
GainToDb(g) ==
  IF g > 0 THEN [kind |-> "finite", val |-> 20 * Log10(g)]
  ELSE IF g = 0 THEN [kind |-> "-Infinity", val |-> 0]
  ELSE [kind |-> "NaN", val |-> 0]

\* this.soundfile.volume.value = db: the engine stores any decibel value
\* whose gain is finite, minus infinity (gain 0) included, and throws on NaN
VolumeSet(n, db) ==
  IF db.kind = "NaN" THEN [err |-> "Error", volume |-> volume[n]]
  ELSE [err |-> NoErr, volume |-> db]

\* amp(value) { let dbValue = Tone.gainToDb(value);
\*              this.soundfile.volume.value = dbValue; }
SoundFile_amp(n, g) ==
  /\ volume' = [volume EXCEPT ![n] = VolumeSet(n, GainToDb(g)).volume]
  /\ last' = Call("amp", n, Undefined, <<TRUE, g, FALSE, 0, 0>>,
                  VolumeSet(n, GainToDb(g)).err, "undefined", 0)
  /\ UNCHANGED <<graphVars, loaded, playVars, loopVars, endVars, fftSize>>

\* onended(callback) { this.soundfile.onstop = callback; }
Callbacks == {"cbA", "cbB"}
NoOp == "noOp"       \* the callback a Tone.Player has before any is set

SoundFile_onendedKeepFirst(n, cb) ==
  /\ onstop' = [onstop EXCEPT ![n] = IF @ = NoOp THEN cb ELSE @]
  /\ last'   = Call("onended", n, cb, NoArgs, NoErr, "undefined", 0)
  /\ UNCHANGED <<graphVars, loaded, playVars, loopVars, ending, fired,
                 auxVars>>

SoundFile_onended(n, cb) ==
  /\ onstop' = [onstop EXCEPT ![n] = cb]
  /\ last'   = Call("onended", n, cb, NoArgs, NoErr, "undefined", 0)
  /\ UNCHANGED <<graphVars, loaded, playVars, loopVars, ending, fired,
                 auxVars>>

\* the engine delivers the ended event of one finished source of n: the
\* player calls this.onstop, once
EngineEnded(n) ==
  /\ ending[n] > 0
  /\ ending' = [ending EXCEPT ![n] = @ - 1]
  /\ fired'  = [node |-> n, cbs |-> <<onstop[n]>>, seq |-> 1 - fired.seq]
  /\ UNCHANGED <<graphVars, loaded, playVars, loopVars, onstop, auxVars, last>>

\* pause() { this.soundfile.playbackRate = 0; this.playing = false; }
SoundFile_pause(n) ==
  /\ engRate' = [engRate EXCEPT ![n] = 0]
  /\ playing' = [playing EXCEPT ![n] = FALSE]
  /\ last'    = Done("pause", n, NoErr)
  /\ UNCHANGED <<graphVars, loaded, rate, engState, pos, loop, loopVars,
                 endVars, auxVars>>

\* loop(value = true) { this.soundfile.loop = value; }
\* a = <<given, value>>: given is FALSE when the argument is omitted
LoopArgs == {<<TRUE, TRUE>>, <<TRUE, FALSE>>, <<FALSE, FALSE>>}

SoundFile_loopToggle(n, a) ==
  /\ loop' = [loop EXCEPT ![n] = ~@]
  /\ last' = Call("loop", n, Undefined, <<a[1], 0, a[2], 0, 0>>, NoErr,
                  "undefined", 0)
  /\ UNCHANGED <<graphVars, loaded, playing, rate, engRate, engState, pos,
                 loopVars, endVars, auxVars>>

SoundFile_loop(n, a) ==
  /\ loop' = [loop EXCEPT ![n] = IF a[1] THEN a[2] ELSE TRUE]
  /\ last' = Call("loop", n, Undefined, <<a[1], 0, a[2], 0, 0>>, NoErr,
                  "undefined", 0)
  /\ UNCHANGED <<graphVars, loaded, playing, rate, engRate, engState, pos,
                 loopVars, endVars, auxVars>>

\* rate(value) { this.soundfile.playbackRate = value; this.rate = value; }
\* The call sf.rate(v) resolves rate on the instance first.
RateArgs == {-1, 0, 2}

SoundFile_rate(n, v) ==
  IF SoundFileCallable("rate")
  THEN /\ engRate' = [engRate EXCEPT ![n] = v]
       /\ rate'    = [rate EXCEPT ![n] = v]
       /\ last'    = Call("rate", n, Undefined, <<TRUE, v, FALSE, 0, 0>>, NoErr,
                          "undefined", 0)
       /\ UNCHANGED <<graphVars, loaded, playing, engState, pos, loop, loopVars,
                      endVars, auxVars>>
  ELSE /\ last' = Call("rate", n, Undefined, <<TRUE, v, FALSE, 0, 0>>,
                       "TypeError", "undefined", 0)
       /\ UNCHANGED <<graphVars, loaded, playVars, loopVars, endVars, auxVars>>

\* the region the engine loops over: the loop points when they describe a
\* region inside the buffer, else the whole buffer
ActualLoopStart(n) ==
  IF loopStart[n] >= 0 /\ loopEnd[n] > 0 /\ loopStart[n] < loopEnd[n]
     /\ loopStart[n] < BufDur
  THEN loopStart[n] ELSE 0

\* the engine renders one second of a started player
EngineAdvance(n) ==
  /\ engState[n] = "started"
  /\ engRate[n] > 0
  /\ pos[n] < BufDur
  /\ pos' = [pos EXCEPT ![n] = IF @ + engRate[n] > BufDur THEN BufDur
                                ELSE @ + engRate[n]]
  /\ UNCHANGED <<graphVars, loaded, playing, rate, engRate, engState, loop,
                 loopVars, endVars, auxVars, last>>

\* the active source reaches the end of the buffer: a looping player wraps,
\* any other stops by itself (the wrapper's playing flag is not written)
EngineEnd(n) ==
  /\ engState[n] = "started"
  /\ engRate[n] > 0
  /\ pos[n] = BufDur
  /\ loop[n] \/ ending[n] < MaxPending
  /\ IF loop[n]
     THEN /\ pos' = [pos EXCEPT ![n] = ActualLoopStart(n)]
          /\ UNCHANGED <<engState, ending>>
     ELSE /\ pos' = [pos EXCEPT ![n] = 0]
          /\ engState' = [engState EXCEPT ![n] = "stopped"]
          /\ ending' = [ending EXCEPT ![n] = @ + 1]
  /\ UNCHANGED <<graphVars, loaded, playing, rate, engRate, loop, loopVars,
                 onstop, fired, auxVars, last>>

\* ------------------------------------------------------------ loop points
TimeArgs == 0 .. MaxArg

\* assertRange(value, 0, buffer.duration), made by the Tone.Player setters
\* of loopStart and loopEnd once the buffer is loaded, after the value has
\* been stored
OutOfRange(n, v) == loaded[n] /\ ~(0 <= v /\ v <= BufferDuration(n))

\* loopPoints(startTime = 0, duration = this.soundfile.buffer.duration,
\*            schedule = 0) {
\*   this.soundfile.loopStart = startTime;
\*   this.soundfile.loopEnd = startTime + duration; }
DefaultDuration(n, startTime) == BufferDuration(n)

\* a = <<startTime given, startTime, duration given, duration, schedule>>
LoopPointsArgs ==
  {a \in BOOLEAN \X TimeArgs \X BOOLEAN \X TimeArgs \X {0, 1} :
     (a[1] \/ a[2] = 0) /\ (a[3] \/ a[4] = 0)}

SoundFile_loopPoints(n, args) ==
  LET startTime == IF args[1] THEN args[2] ELSE 0
      duration  == IF args[3] THEN args[4] ELSE DefaultDuration(n, startTime)
  IN  /\ loopStart' = [loopStart EXCEPT ![n] = startTime]
      /\ IF OutOfRange(n, startTime)
         THEN /\ UNCHANGED loopEnd
              /\ last' = Call("loopPoints", n, Undefined, args, "RangeError",
                              "undefined", 0)
         ELSE /\ loopEnd' = [loopEnd EXCEPT ![n] = startTime + duration]
              /\ last' = Call("loopPoints", n, Undefined, args,
                              IF OutOfRange(n, startTime + duration)
                              THEN "RangeError" ELSE NoErr,
                              "undefined", 0)
      /\ inRange' = [inRange EXCEPT ![n] = @ /\ startTime <= BufDur]
      /\ UNCHANGED <<graphVars, loaded, playVars, endVars, auxVars>>

\* ------------------------------------------------------------ the analyzer
\* constructor(fftSize) { if (fftSize === undefined) { fftSize = 32; }
\*                        this.fftSize = fftSize; ... }
DefaultFftSize == 32

\* a = <<given, fftSize>>: given is FALSE when the argument is omitted
FFT_constructor(a) == IF a[1] THEN a[2] ELSE DefaultFftSize

\* this.gain.connect(this.analyzer); this.gain.connect(this.waveform);
Taps == {"analyzer", "waveform"}

\* own properties the FFT constructor assigns, and the methods of the class
FFTOwnProps == {"fftSize", "analyzer", "waveform", "gain"}
FFTMethods  == {"getNode", "analyze", "waveform"}
FFTCallable(m) == m \in FFTMethods /\ m \notin FFTOwnProps

\* getNode() { return this.gain; }
FFT_getNode(f) ==
  /\ last' = Call("getNode", f, f, NoArgs, NoErr, "handle", 0)
  /\ UNCHANGED <<graphVars, loaded, playVars, loopVars, endVars, auxVars>>

\* the class FFT defines no connect method: fft.connect(d) finds nothing to
\* call
FFT_connect(f, d) ==
  /\ ~FFTCallable("connect")
  /\ last' = Call("connect", f, d, NoArgs, "TypeError", "undefined", 0)
  /\ UNCHANGED <<graphVars, loaded, playVars, loopVars, endVars, auxVars>>

\* the class FFT defines no disconnect method
FFT_disconnect(f) ==
  /\ ~FFTCallable("disconnect")
  /\ last' = Done("disconnect", f, "TypeError")
  /\ UNCHANGED <<graphVars, loaded, playVars, loopVars, endVars, auxVars>>

\* Tone.FFT({size}).getValue(): one value per frequency bin, and size is the
\* number of bins (the transform runs over 2 * size samples)
ToneFFTGetValueLength(size) == size

\* analyze() { return this.analyzer.getValue(); }
FFT_analyze(f) ==
  /\ last' = Call("analyze", f, Undefined, NoArgs, NoErr, "array",
                  ToneFFTGetValueLength(fftSize[f]))
  /\ UNCHANGED <<graphVars, loaded, playVars, loopVars, endVars, auxVars>>

\* waveform() { console.log('waveform'); }
\* The call fft.waveform() resolves waveform on the instance first, where
\* the constructor put a Tone.Waveform object.
FFT_waveform(f) ==
  IF FFTCallable("waveform")
  THEN /\ last' = Done("waveform", f, NoErr)
       /\ UNCHANGED <<graphVars, loaded, playVars, loopVars, endVars, auxVars>>
  ELSE /\ last' = Done("waveform", f, "TypeError")
       /\ UNCHANGED <<graphVars, loaded, playVars, loopVars, endVars, auxVars>>

\* getNode() { return this.soundfile; }
SoundFile_getNode(n) ==
  /\ last' = Call("getNode", n, n, NoArgs, NoErr, "handle", 0)
  /\ UNCHANGED <<graphVars, loaded, playVars, loopVars, endVars, auxVars>>

\* getNode() { return this.noise; }
Noise_getNode(n) ==
  /\ last' = Call("getNode", n, n, NoArgs, NoErr, "handle", 0)
  /\ UNCHANGED <<graphVars, loaded, playVars, loopVars, endVars, auxVars>>

\* fft1 is built by new FFT(), fft2 by new FFT(16)
ConstructedWith ==
  [f \in Analyzers |-> IF f = "fft1" THEN <<FALSE, 0>> ELSE <<TRUE, 16>>]

\* ------------------------------------------------------------ construction
\* new Tone.Player(buffer, cb).toDestination(); playing = false; rate = 1
\* new Tone.Noise().toDestination()
\* new Tone.Gain(1) connected to the Tone.FFT and to the Tone.Waveform
Init ==
  /\ edges     = [n \in Sources \cup Analyzers |->
                     IF n \in Sources THEN {Destination} ELSE Taps]
  /\ loaded    = [n \in SoundFiles |-> FALSE]
  /\ playing   = [n \in SoundFiles |-> FALSE]
  /\ rate      = [n \in SoundFiles |-> 1]
  /\ engRate   = [n \in SoundFiles |-> 1]
  /\ engState  = [n \in SoundFiles |-> "stopped"]
  /\ pos       = [n \in SoundFiles |-> 0]
  /\ loop      = [n \in SoundFiles |-> FALSE]
  /\ loopStart = [n \in SoundFiles |-> 0]
  /\ loopEnd   = [n \in SoundFiles |-> 0]
  /\ inRange   = [n \in SoundFiles |-> TRUE]
  /\ onstop    = [n \in SoundFiles |-> NoOp]
  /\ ending    = [n \in SoundFiles |-> 0]
  /\ fired     = [node |-> "sf1", cbs |-> <<>>, seq |-> 0]
  /\ volume    = [n \in SoundFiles |-> [kind |-> "finite", val |-> 0]]
  /\ fftSize   = [f \in Analyzers |-> FFT_constructor(ConstructedWith[f])]
  /\ last      = [op |-> "new", node |-> "sf1", dest |-> Undefined,
                   args |-> NoArgs, err |-> NoErr, retKind |-> "undefined",
                   retVal |-> 0, pre |-> {}, seq |-> 0]

NextGraph ==
  \/ \E n \in SoundFiles, d \in ConnectArgs : SoundFile_connect(n, d)
  \/ \E n \in SoundFiles : SoundFile_disconnect(n)
  \/ \E n \in NoiseNodes, d \in ConnectArgs : Noise_connect(n, d)
  \/ \E n \in NoiseNodes : Noise_disconnect(n)

SpecGraph == Init /\ [][NextGraph]_vars

\* the transport of one SoundFile, its getters and the engine under it
Player == {"sf1"}

NextPlay ==
  \/ \E n \in Player : BufferLoaded(n)
  \/ \E n \in Player : SoundFile_start(n)
  \/ \E n \in Player : SoundFile_play(n)
  \/ \E n \in Player : SoundFile_stop(n)
  \/ \E n \in Player : SoundFile_pause(n)
  \/ \E n \in Player, v \in RateArgs : SoundFile_rate(n, v)
  \/ \E n \in Player, a \in LoopArgs : SoundFile_loop(n, a)
  \/ \E n \in Player, t \in JumpArgs : SoundFile_jump(n, t)
  \/ \E n \in Player, cb \in Callbacks : SoundFile_onended(n, cb)
  \/ \E n \in Player : SoundFile_duration(n)
  \/ \E n \in Player : SoundFile_sampleRate(n)
  \/ \E n \in Player : SoundFile_frames(n)
  \/ \E n \in Player : SoundFile_channels(n)
  \/ \E n \in Player : SoundFile_currentTime(n)
  \/ \E n \in Player : EngineAdvance(n)
  \/ \E n \in Player : EngineEnd(n)
  \/ \E n \in Player : EngineEnded(n)

SpecPlay == Init /\ [][NextPlay]_vars

NextLoop ==
  \/ \E n \in Player : BufferLoaded(n)
  \/ \E n \in Player, a \in LoopPointsArgs : SoundFile_loopPoints(n, a)

SpecLoop == Init /\ [][NextLoop]_vars

\* two SoundFiles side by side: every state-changing call on the first,
\* with one argument value per call, while the second is loaded, started,
\* paused, looped and connected
NodesLoopPoints == {<<TRUE, 1, TRUE, 1, 0>>}
NodesLoop       == {<<TRUE, TRUE>>}
NodesConnect    == {"fft1"}

NextNodes ==
  \/ \E n \in SoundFiles : BufferLoaded(n)
  \/ \E n \in SoundFiles : SoundFile_start(n)
  \/ \E n \in Player : SoundFile_stop(n)
  \/ \E n \in SoundFiles : SoundFile_pause(n)
  \/ \E n \in Player, a \in LoopArgs : SoundFile_loop(n, a)
  \/ \E n \in SoundFiles \ Player, a \in NodesLoop : SoundFile_loop(n, a)
  \/ \E n \in Player, a \in NodesLoopPoints : SoundFile_loopPoints(n, a)
  \/ \E n \in SoundFiles, d \in NodesConnect : SoundFile_connect(n, d)
  \/ \E n \in Player : SoundFile_disconnect(n)
  \/ \E n \in SoundFiles : EngineEnded(n)

SpecNodes == Init /\ [][NextNodes]_vars

\* the gain of one SoundFile, set while it loads, plays and stops
NextAmp ==
  \/ \E n \in Player : BufferLoaded(n)
  \/ \E n \in Player : SoundFile_start(n)
  \/ \E n \in Player : SoundFile_stop(n)
  \/ \E n \in Player : EngineEnded(n)
  \/ \E n \in Player, g \in GainArgs : SoundFile_amp(n, g)

SpecAmp == Init /\ [][NextAmp]_vars

\* the three node kinds as graph nodes, and the analyzer's own methods
NextApi ==
  \/ \E n \in SoundFiles : SoundFile_getNode(n)
  \/ \E n \in NoiseNodes : Noise_getNode(n)
  \/ \E f \in Analyzers : FFT_getNode(f)
  \/ \E n \in SoundFiles, d \in Analyzers : SoundFile_connect(n, d)
  \/ \E n \in NoiseNodes, d \in Analyzers : Noise_connect(n, d)
  \/ \E f \in Analyzers, d \in Analyzers : FFT_connect(f, d)
  \/ \E n \in SoundFiles : SoundFile_disconnect(n)
  \/ \E n \in NoiseNodes : Noise_disconnect(n)
  \/ \E f \in Analyzers : FFT_disconnect(f)
  \/ \E f \in Analyzers : FFT_analyze(f)
  \/ \E f \in Analyzers : FFT_waveform(f)

SpecApi == Init /\ [][NextApi]_vars

\* ------------------------------------------------------------------ claims
\* the step is a call of op (the call bit flips at every call)
IsCall(op) == last'.seq # last.seq /\ last'.op = op

StartedOk ==
  last.op \in {"start", "play"} /\ loaded[last.node] /\ last.err = NoErr

\* C1: on a loaded SoundFile, isPlaying() is true right after start() or
\* play() and false right after stop(); stop() leaves the player stopped and
\* a second stop() changes nothing.
C1_StartStopFlag ==
  /\ [](StartedOk => isPlaying(last.node))
  /\ [](last.op = "stop" /\ loaded[last.node]
          => ~isPlaying(last.node) /\ engState[last.node] = "stopped")
  /\ [][IsCall("stop") /\ last.op = "stop" /\ last.node = last'.node
          => UNCHANGED <<edges, loaded, playVars, loopVars>>]_vars

\* C2: after disconnect() the node has no outgoing edge at all, whatever
\* was connected before, the default edge to the final output included.
C2_DisconnectRemovesAll ==
  last.op = "disconnect" => edges[last.node] = {}

C2_Witness ==
  /\ last.op = "disconnect"
  /\ Destination \in last.pre
  /\ Cardinality(last.pre) >= 3
  /\ edges[last.node] = {}

\* C3: disconnect() never raises, and on a node that has no outgoing edge
\* (never connected, or already disconnected) it leaves every edge of the
\* graph as it was.
C3_DisconnectIdempotent ==
  [][IsCall("disconnect")
       => /\ last'.err = NoErr
          /\ (edges[last'.node] = {} => edges' = edges)]_vars

C3_Witness ==
  /\ last.op = "disconnect"
  /\ last.pre = {}
  /\ last.err = NoErr
  /\ \E m \in Sources \ {last.node} : Cardinality(edges[m]) >= 2

\* C4: connect(d) to a destination whose handle takes input succeeds and
\* adds the edge to d's handle; every other edge of the node and every edge
\* of every other node stays.
C4_ConnectFanOut ==
  [][IsCall("connect") /\ last'.dest \in Analyzers
       => /\ last'.err = NoErr
          /\ edges' = [edges EXCEPT ![last'.node] = @ \cup {last'.dest}]]_vars

C4_Witness ==
  /\ last.op = "connect"
  /\ last.err = NoErr
  /\ Cardinality(last.pre) >= 2
  /\ last.dest \notin last.pre
  /\ edges[last.node] = last.pre \cup {last.dest}

\* C5: rate(v) succeeds and stores v for any v, and a later start() or
\* play() applies the stored value as the engine playback rate.
C5_RateStored ==
  /\ last.op = "rate" => last.err = NoErr /\ rate[last.node] = last.args[2]
  /\ StartedOk => engRate[last.node] = rate[last.node]

\* C6: pause() on a playing SoundFile sets the engine rate to 0 and the
\* playing flag to false and keeps the position and the stored rate; a
\* start() that follows sets the flag, restores the engine rate to the
\* stored rate, and continues from the position of the pause.
C6_PauseResume ==
  [][/\ IsCall("pause") /\ playing[last'.node]
          => /\ engRate'[last'.node] = 0
             /\ ~playing'[last'.node]
             /\ pos'[last'.node] = pos[last'.node]
             /\ rate'[last'.node] = rate[last'.node]
     /\ IsCall("start") /\ last.op = "pause" /\ last.node = last'.node
          /\ loaded[last'.node]
          => /\ playing'[last'.node]
             /\ engRate'[last'.node] = rate[last'.node]
             /\ pos'[last'.node] = pos[last'.node]]_vars

NotReadyQueries == {"duration", "sampleRate", "channels", "frames"}

\* C7: while the buffer is not loaded, duration(), sampleRate(), channels()
\* and frames() answer "not available" and start()/play() does not throw,
\* and the playing flag stays false.
C7_NotReady ==
  last.op \in NotReadyQueries \cup {"start", "play"} /\ ~loaded[last.node]
    => /\ last.err = NoErr
       /\ (last.op \in NotReadyQueries => last.retKind = "undefined")
       /\ ~playing[last.node]

\* C8: connect(d) with a destination that has no handle able to take the
\* connection raises an error and leaves every edge of the graph as it was.
C8_InvalidConnection ==
  [][IsCall("connect") /\ last'.dest \notin Analyzers
       => last'.err # NoErr /\ edges' = edges]_vars

C8_Witness ==
  /\ last.op = "connect"
  /\ last.dest = NullHandle
  /\ last.err # NoErr
  /\ Cardinality(last.pre) >= 2
  /\ edges[last.node] = last.pre

\* the arguments of the last loopPoints call, defaults as the claim has them
C9_StartTime == IF last.args[1] THEN last.args[2] ELSE 0
C9_Duration  == IF last.args[3] THEN last.args[4] ELSE BufDur - C9_StartTime

\* C9: loopPoints(startTime, duration) leaves loopStart = startTime and
\* loopEnd = startTime + duration; an omitted startTime is 0, an omitted
\* duration is the rest of the buffer, bufferDuration - startTime (checked
\* where the buffer duration is known); scheduleDelay changes nothing.
C9_LoopPoints ==
  last.op = "loopPoints" /\ (last.args[3] \/ loaded[last.node])
    => /\ loopStart[last.node] = C9_StartTime
       /\ loopEnd[last.node] = C9_StartTime + C9_Duration

\* C10: for a loaded SoundFile whose loopPoints calls all had a startTime in
\* 0..bufferDuration, loopEnd > loopStart >= 0 and both are at most the
\* buffer duration.
C10_LoopInvariant ==
  \A n \in SoundFiles :
    loaded[n] /\ inRange[n]
      => /\ loopEnd[n] > loopStart[n]
         /\ loopStart[n] >= 0
         /\ loopStart[n] <= BufDur
         /\ loopEnd[n] <= BufDur

\* a source of n ran out by itself in this step (no call was made)
NaturalEnd(n) ==
  /\ last' = last
  /\ engState[n] = "started" /\ engState'[n] = "stopped"

\* C11: onended(cb) replaces the retained callback; every ended event the
\* engine delivers invokes the callback retained at that moment exactly
\* once; a natural end of a non-looping playback and a stop() of a playing
\* SoundFile each raise exactly one such event, and no callback runs
\* without an event.
C11_OnEnded ==
  [][/\ IsCall("onended") => onstop'[last'.node] = last'.dest
     /\ \A n \in SoundFiles :
          /\ ending'[n] < ending[n]
               => /\ ending'[n] = ending[n] - 1
                  /\ fired'.node = n
                  /\ fired'.cbs = <<onstop[n]>>
                  /\ fired'.seq # fired.seq
          /\ NaturalEnd(n) => ~loop[n] /\ ending'[n] = ending[n] + 1
          /\ IsCall("stop") /\ last'.node = n /\ engState[n] = "started"
               => ending'[n] = ending[n] + 1
     /\ fired' # fired => \E n \in SoundFiles : ending'[n] < ending[n]]_vars

\* onended(cbB) was the last call, made while the SoundFile played; the
\* buffer then ran out and the event delivered cbB
C11_Witness ==
  /\ last.op = "onended" /\ last.dest = "cbB"
  /\ fired.node = last.node /\ fired.cbs = <<"cbB">>
  /\ playing[last.node] /\ engState[last.node] = "stopped"
  /\ ending[last.node] = 0

\* everything a SoundFile holds, in the wrapper and in its engine player
NodeState(m) ==
  <<playing[m], rate[m], engRate[m], engState[m], pos[m], loop[m],
    loopStart[m], loopEnd[m], edges[m], onstop[m], volume[m], loaded[m]>>

C13_AudioNodeContract ==
  /\ [](last.op = "getNode"
          => /\ last.err = NoErr
             /\ last.retKind = "handle" /\ last.dest = last.node)
  /\ [](last.op \in {"connect", "disconnect"} /\ last.dest \notin Sources
          => last.err = NoErr)
  /\ [][IsCall("getNode")
          => UNCHANGED <<edges, loaded, playVars, loopVars, endVars, auxVars>>]_vars

\* C14: analyze() returns fftSize / 2 values (16 for the default fftSize of
\* 32), the same number at every call on the analyzer.
C14_AnalyzeLength ==
  last.op = "analyze"
    => /\ last.err = NoErr
       /\ last.retKind = "array"
       /\ 2 * last.retVal = fftSize[last.node]

\* C19: waveform() on an FFT completes without error, returns no samples,
\* and changes neither the analyzer nor the graph.
C19_WaveformStub ==
  /\ [](last.op = "waveform"
          => last.err = NoErr /\ last.retKind = "undefined")
  /\ [][IsCall("waveform")
          => UNCHANGED <<edges, loaded, playVars, loopVars, endVars, auxVars>>]_vars

\* what loop(a) asks for: the value given, TRUE when none is given
C15_Requested == IF last.args[1] THEN last.args[3] ELSE TRUE

\* C15: after loop(x) isLooping() returns x, and TRUE after loop(); a
\* loop(x) on a SoundFile that already loops as asked changes nothing, and
\* no loop call changes the playing flag, the rates or the loop points.
C15_LoopFlag ==
  /\ [](last.op = "loop"
          => last.err = NoErr /\ isLooping(last.node) = C15_Requested)
  /\ [][IsCall("loop")
          => /\ UNCHANGED <<edges, loaded, playing, rate, engRate, engState,
                            pos, loopVars, endVars, auxVars>>
             /\ (last.op = "loop" /\ last.node = last'.node
                   /\ last.args = last'.args => loop' = loop)]_vars

\* loop() without argument has run on a playing SoundFile with loop points
C15_Witness ==
  /\ last.op = "loop" /\ ~last.args[1]
  /\ isLooping(last.node)
  /\ playing[last.node]
  /\ loopStart[last.node] > 0 /\ loopEnd[last.node] > loopStart[last.node]

\* the decibel value the claim gives for a gain in thousandths
C16_Expected(g) ==
  CASE g = 1000 -> 0 [] g = 100 -> 0 - 20 [] g = 10 -> 0 - 40
    [] g = 1 -> 0 - 60 [] OTHER -> 0

\* C16: amp(g) never raises and leaves a finite decibel value on the output
\* stage, also for g <= 0; for g in (0,1] the value is 20 * log10(g).
C16_AmpFinite ==
  last.op = "amp"
    => /\ last.err = NoErr
       /\ volume[last.node].kind = "finite"
       /\ (last.args[2] > 0
             => volume[last.node].val = C16_Expected(last.args[2]))

\* C17: currentTime() never fails and returns the transport position.
C17_CurrentTime ==
  last.op = "currentTime"
    => /\ last.err = NoErr
       /\ last.retKind = "number"
       /\ last.retVal = pos[last.node]

\* C18: from every state start() and play() have the same result: playing
\* flag, engine rate, stored rate, loop state, engine transport (state,
\* position, source ended) and error; and each call leaves the state the
\* other one would.
C18_StartPlayEquivalent ==
  /\ [](\A n \in SoundFiles : StartResult(n) = PlayResult(n))
  /\ [][\A n \in SoundFiles :
          /\ IsCall("start") /\ last'.node = n
               => /\ playing'[n] = PlayResult(n).playing
                  /\ engRate'[n] = PlayResult(n).engRate
                  /\ engState'[n] = PlayResult(n).engState
                  /\ pos'[n] = PlayResult(n).pos
                  /\ ending'[n] = PlayResult(n).ending
                  /\ last'.err = PlayResult(n).err
          /\ IsCall("play") /\ last'.node = n
               => /\ playing'[n] = StartResult(n).playing
                  /\ engRate'[n] = StartResult(n).engRate
                  /\ engState'[n] = StartResult(n).engState
                  /\ pos'[n] = StartResult(n).pos
                  /\ ending'[n] = StartResult(n).ending
                  /\ last'.err = StartResult(n).err]_vars

\* a paused SoundFile in the middle of its buffer: a start() or a play()
\* would restore the rate and restart the buffer
C18_Witness ==
  /\ last.op = "pause"
  /\ loaded[last.node] /\ engState[last.node] = "started"
  /\ engRate[last.node] = 0 /\ pos[last.node] > 0
  /\ StartResult(last.node).engRate = rate[last.node]
  /\ StartResult(last.node).ending = 1

\* C20: whenever isPlaying() returns true the engine is playing the buffer;
\* after the buffer has run out, isPlaying() returns false.
C20_FlagMatchesEngine ==
  \A n \in SoundFiles :
    isPlaying(n) => engState[n] = "started" /\ engRate[n] # 0

====
